---- MODULE Spec2Model ----
(***************************************************************************)
(* Model of randomize_excel_values.py: the console menu of main(), the     *)
(* per-file transformation process_excel_file() and its helpers, over an   *)
(* abstract file system (input, output and backup directories).            *)
(*                                                                         *)
(* Strings that the code inspects character by character (column names)    *)
(* are sequences of one-character strings.  The Cyrillic capitals of the   *)
(* target column names are written with the Latin capitals M, Z, U; the    *)
(* digits, the slash and the space are as in the source.                   *)
(*                                                                         *)
(* Numbers are decimal fixed point with 14 fractional digits, held in two  *)
(* limbs <<a, b>> = a * 10^-7 + b * 10^-14 with 0 <= b < 10^7, so that     *)
(* rounding to 13 fractional digits is a visible operation.                *)
(***************************************************************************)
EXTENDS Integers, Sequences, FiniteSets, TLC

VARIABLES
    fs,                   \* path -> file (or NoFile)
    dirs,                 \* the directories that exist
    faulty,               \* the environment's failing operation ("none" if none)
    PRESERVE_FILE_DATES,  \* the global flag of line 44
    pc,                   \* where main() stands
    choice,               \* the answer read at line 218 ("" before it)
    nested,               \* TRUE inside a recursive main() (line 270)
    excel_files,          \* main's list of input paths (line 202)
    idx,                  \* number of files the running loop has handled
    successful,           \* main's counter (line 231)
    failed,               \* main's counter (line 232)
    calls,                \* history of process_excel_file calls
    report                \* the last message main() printed about its own fate

vars == <<fs, dirs, faulty, PRESERVE_FILE_DATES, pc, choice, nested, excel_files,
          idx, successful, failed, calls, report>>

----------------------------------------------------------------------------
(* Bounds of the model *)

MaxFiles == 6
MaxCells == 4

----------------------------------------------------------------------------
(* Configuration (lines 17-44) *)

INPUT_DIR == "src/xlsx"
OUTPUT_DIR == "output"
BACKUP_DIR == "backup"

TARGET_COLUMNS ==
    << <<"M","Z"," ","1","/","6","0">>,
       <<"M","Z"," ","2","/","6","0">>,
       <<"M","Z"," ","3","/","6","0">>,
       <<"U","Z"," ","3","/","6","0">>,
       <<"M","Z"," ","1","/","4","0">>,
       <<"M","Z"," ","2","/","4","0">>,
       <<"M","Z"," ","3","/","4","0">> >>

NDIGITS == 13                    \* round(..., 13)
LimbBase == 10 ^ 7
Quantum == 10 ^ (14 - NDIGITS)   \* 10^-13 in units of 10^-14

MIN_VALUE == <<209000000, 0>>   \* 20.9
MAX_VALUE == <<221000000, 0>>   \* 22.1

SampleSize == 5

----------------------------------------------------------------------------
(* Fixed-point numbers *)

Leq(x, y) == x[1] < y[1] \/ (x[1] = y[1] /\ x[2] <= y[2])

\* round(x, 13): to the nearest multiple of 10^-13, a tie to the even one,
\* with the carry into the upper limb.
Round13(x) ==
    LET q  == x[2] \div Quantum
        r  == x[2] % Quantum
        up == 2 * r > Quantum \/ (2 * r = Quantum /\ q % 2 = 1)
        b  == (IF up THEN q + 1 ELSE q) * Quantum
    IN  IF b = LimbBase THEN <<x[1] + 1, 0>> ELSE <<x[1], b>>

\* The raw results of random.uniform the model draws from: the two end points
\* (the upper one may be returned), the values 4 * 10^-14 and 5 * 10^-14
\* inside them, which rounding moves onto the end points (the latter as
\* ties, the upper ones with a carry), and the values 10^-13 outside the
\* range, which uniform never returns.
RawSamples ==
    { <<208999999, 9999990>>,
      <<209000000, 0>>, <<209000000, 4>>, <<209000000, 5>>,
      <<220999999, 9999995>>, <<220999999, 9999996>>, <<221000000, 0>>,
      <<221000000, 10>> }

\* Variant: the bounds are not applied to the draw.
UniformUnbounded(min_val, max_val) == RawSamples

Uniform(min_val, max_val) ==
    { x \in RawSamples : Leq(min_val, x) /\ Leq(x, max_val) }

generate_random_value == { Round13(x) : x \in Uniform(MIN_VALUE, MAX_VALUE) }

----------------------------------------------------------------------------
(* Cells and tables *)

Num(x) == [k |-> "num", a |-> x[1], b |-> x[2], s |-> ""]
Str(t) == [k |-> "str", a |-> 0, b |-> 0, s |-> t]
NaN == [k |-> "nan", a |-> 0, b |-> 0, s |-> ""]

\* The cell contents the model's spreadsheets hold: a number outside the
\* range (5.0), a text that reads as a number, a text that does not, empty.
NumericTexts == { "12.5" }
CellValues == { Num(<<50000000, 0>>), Str("12.5"), Str("abc"), NaN }

\* pd.to_numeric(..., errors='coerce').notna() of one cell
ToNumericNotNa(c) == c.k = "num" \/ (c.k = "str" /\ c.s \in NumericTexts)

ColumnIndex(df, col) == CHOOSE ci \in 1..Len(df.cols) : df.cols[ci] = col

InColumns(df, col) == \E ci \in 1..Len(df.cols) : df.cols[ci] = col

----------------------------------------------------------------------------
(* Column names *)

Lower(c) ==
    CASE c = "M" -> "m"
      [] c = "Z" -> "z"
      [] c = "U" -> "u"
      [] c = "D" -> "d"
      [] c = "O" -> "o"
      [] c = "L" -> "l"
      [] OTHER -> c

\* name.replace(" ", "").lower()
Normalize(name) ==
    LET kept == SelectSeq(name, LAMBDA c : c # " ")
    IN  [j \in 1..Len(kept) |-> Lower(kept[j])]

\* Python's `sub in s` on strings
Contains(sub, s) ==
    \E j \in 0..(Len(s) - Len(sub)) : SubSeq(s, j + 1, j + Len(sub)) = sub

\* Variant: the names are compared as they are written.
SimilarColsVerbatim(df, target_col) ==
    SelectSeq(df.cols, LAMBDA col : Contains(target_col, col))

SimilarCols(df, target_col) ==
    SelectSeq(df.cols, LAMBDA col : Contains(Normalize(target_col), Normalize(col)))

RECURSIVE ResolveFrom(_, _, _)
ResolveFrom(df, t, found) ==
    IF t > Len(TARGET_COLUMNS) THEN found
    ELSE LET target_col == TARGET_COLUMNS[t]
         IN  IF InColumns(df, target_col)
             THEN ResolveFrom(df, t + 1, Append(found, target_col))
             ELSE ResolveFrom(df, t + 1, found \o SimilarCols(df, target_col))

ResolveColumns(df) == ResolveFrom(df, 1, <<>>)

----------------------------------------------------------------------------
(* Files and paths *)

Names == 1..MaxFiles

Paths == {INPUT_DIR, OUTPUT_DIR, BACKUP_DIR} \X Names

EmptyTable == [cols |-> <<>>, nrows |-> 0, data |-> <<>>]

NoFile == [exists |-> FALSE, readable |-> FALSE, table |-> EmptyTable, mtime |-> "none"]

File(table, mtime) ==
    [exists |-> TRUE, readable |-> TRUE, table |-> table, mtime |-> mtime]

\* a file pd.read_excel cannot parse
CorruptFile ==
    [exists |-> TRUE, readable |-> FALSE, table |-> EmptyTable, mtime |-> "old"]

Basename(path) == path[2]

Join(dir, name) == <<dir, name>>

Exists(files, path) == files[path].exists

\* The operations of the environment that may fail during one run.
Faults == {"none", "mkdir", "backup", "write", "utime"}

----------------------------------------------------------------------------
(* backup_file (lines 58-67) *)

\* Variant: the copy is made whether or not a backup exists.
BackupFileOverwrites(files, file_path) ==
    [files EXCEPT ![Join(BACKUP_DIR, Basename(file_path))] = files[file_path]]

backup_file(files, file_path) ==
    LET filename == Basename(file_path)
        backup_path == Join(BACKUP_DIR, filename)
    IN  IF ~Exists(files, backup_path)
        THEN [files EXCEPT ![backup_path] = files[file_path]]   \* shutil.copy2
        ELSE files

----------------------------------------------------------------------------
(* preserve_file_timestamps (lines 69-87): a failure is caught and logged *)

preserve_file_timestamps(files, source_file, target_file) ==
    IF faulty = "utime"
    THEN files
    ELSE [files EXCEPT ![target_file].mtime = files[source_file].mtime]

----------------------------------------------------------------------------
(* process_excel_file (lines 89-187) *)

NumericMask(df, ci) == [r \in 1..df.nrows |-> ToNumericNotNa(df.data[ci][r])]

NumericCount(mask) == Cardinality({r \in DOMAIN mask : mask[r]})

\* Variant: the new values go to the first rows of the column, not to the
\* masked ones.
AssignLocPositional(df, ci, mask, new_values) ==
    [df EXCEPT !.data[ci] =
        [r \in 1..df.nrows |->
            IF r <= Len(new_values) THEN Num(new_values[r]) ELSE df.data[ci][r]]]

\* Variant: the masked rows are overwritten in every column.
AssignLocAllColumns(df, ci, mask, new_values) ==
    [df EXCEPT !.data =
        [c \in 1..Len(df.cols) |->
            [r \in 1..df.nrows |->
                IF mask[r]
                THEN Num(new_values[Cardinality({q \in 1..r : mask[q]})])
                ELSE df.data[c][r]]]]

\* df.loc[numeric_mask, col] = new_values: the k-th masked row takes the
\* k-th new value.
AssignLoc(df, ci, mask, new_values) ==
    [df EXCEPT !.data[ci] =
        [r \in 1..df.nrows |->
            IF mask[r]
            THEN Num(new_values[Cardinality({q \in 1..r : mask[q]})])
            ELSE df.data[ci][r]]]

\* The loop of lines 145-166 from position j of found_columns on: the set of
\* its possible results, one per choice of the random draws.
RECURSIVE Randomize(_, _, _, _)
Randomize(df, found_columns, j, changes_made) ==
    IF j > Len(found_columns)
    THEN {[df |-> df, changes_made |-> changes_made]}
    ELSE LET col == found_columns[j]
         IN  IF InColumns(df, col)
             THEN LET ci == ColumnIndex(df, col)
                      numeric_mask == NumericMask(df, ci)
                      numeric_count == NumericCount(numeric_mask)
                  IN  IF numeric_count > 0
                      THEN UNION { Randomize(AssignLoc(df, ci, numeric_mask, new_values),
                                             found_columns, j + 1, TRUE) :
                                   new_values \in [1..numeric_count -> generate_random_value] }
                      ELSE Randomize(df, found_columns, j + 1, changes_made)
             ELSE Randomize(df, found_columns, j + 1, changes_made)

\* Lines 133-141 raise when a found column holds a text among its non-null
\* cells: min() fails on mixed cells, the :.4f format on a text minimum.
TestModeRaises(df, found_columns) ==
    \E j \in 1..Len(found_columns) :
        InColumns(df, found_columns[j]) /\
        LET ci == ColumnIndex(df, found_columns[j])
        IN  \E r \in 1..df.nrows : df.data[ci][r].k = "str"

\* Variant: the table is written back to the path it was read from.
OutputPathInPlace(file_path) == file_path

\* Lines 173-174.
OutputPath(file_path) == Join(OUTPUT_DIR, Basename(file_path))

Outcome(files, ret, msg, found_columns, wrote) ==
    [fs |-> files, ret |-> ret, msg |-> msg, found |-> found_columns,
     wrote |-> wrote, escaped |-> FALSE]

\* Variant: the exception leaves the function.
Uncaught(files, found_columns) ==
    [Outcome(files, FALSE, "error", found_columns, <<>>) EXCEPT !.escaped = TRUE]

\* Lines 185-187: an exception raised anywhere in the function is caught,
\* reported and turned into the result False.
Caught(files, found_columns) ==
    Outcome(files, FALSE, "error", found_columns, <<>>)

\* Lines 172-183: the write of the table and of the time stamps.
SaveOutput(files, file_path, df) ==
    LET output_path == OutputPath(file_path)
        written == [files EXCEPT ![output_path] = File(df, "now")]
    IN  IF PRESERVE_FILE_DATES
        THEN preserve_file_timestamps(written, file_path, output_path)
        ELSE written

\* Variant: the table is written although nothing was changed.
ApplyModeAlwaysSaves(files, file_path, df, found_columns) ==
    { IF faulty = "write"
      THEN Caught(files, found_columns)
      ELSE Outcome(SaveOutput(files, file_path, res.df), TRUE, "saved",
                   found_columns, <<OutputPath(file_path)>>) :
      res \in Randomize(df, found_columns, 1, FALSE) }

\* Lines 144-183, after the columns are resolved, in apply mode.
ApplyMode(files, file_path, df, found_columns) ==
    { IF ~res.changes_made
      THEN Outcome(files, FALSE, "no_changes", found_columns, <<>>)
      ELSE IF faulty = "write"
      THEN Caught(files, found_columns)
      ELSE Outcome(SaveOutput(files, file_path, res.df), TRUE, "saved",
                   found_columns, <<OutputPath(file_path)>>) :
      res \in Randomize(df, found_columns, 1, FALSE) }

\* Lines 131-142.
TestMode(files, df, found_columns) ==
    IF TestModeRaises(df, found_columns)
    THEN {Caught(files, found_columns)}
    ELSE {Outcome(files, TRUE, "analysed", found_columns, <<>>)}

\* Lines 107-183, after the backup.
ReadAndProcess(files, file_path, test_mode) ==
    IF ~files[file_path].readable
    THEN {Caught(files, <<>>)}
    ELSE LET df == files[file_path].table
             found_columns == ResolveColumns(df)
         IN  IF found_columns = <<>>
             THEN {Outcome(files, FALSE, "no_columns", found_columns, <<>>)}
             ELSE IF test_mode
             THEN TestMode(files, df, found_columns)
             ELSE ApplyMode(files, file_path, df, found_columns)

\* Variant: the backup is made in test mode too.
ProcessBacksUpInTestMode(file_path, test_mode) ==
    IF faulty = "backup"
    THEN {Caught(fs, <<>>)}
    ELSE ReadAndProcess(backup_file(fs, file_path), file_path, test_mode)

\* The whole function: the set of its possible outcomes in the current state.
process_excel_file(file_path, test_mode) ==
    IF ~test_mode /\ faulty = "backup"
    THEN {Caught(fs, <<>>)}
    ELSE ReadAndProcess(IF test_mode THEN fs ELSE backup_file(fs, file_path),
                        file_path, test_mode)

Call(file_path, test_mode, res) ==
    [path |-> file_path, test_mode |-> test_mode, ret |-> res.ret,
     msg |-> res.msg, found |-> res.found, wrote |-> res.wrote]

----------------------------------------------------------------------------
(* main (lines 189-279) *)

Min(x, y) == IF x <= y THEN x ELSE y

\* glob.glob(os.path.join(INPUT_DIR, "*.xlsx")), in the order of the names
Glob(files) ==
    LET present == {n \in Names : Exists(files, Join(INPUT_DIR, n))}
        RECURSIVE Sorted(_)
        Sorted(S) == IF S = {} THEN <<>>
                     ELSE LET m == CHOOSE x \in S : \A y \in S : x <= y
                          IN  <<Join(INPUT_DIR, m)>> \o Sorted(S \ {m})
    IN  Sorted(present)

\* create_directories (lines 52-56)
create_directories(existing) == existing \cup {OUTPUT_DIR, BACKUP_DIR}

\* Lines 198-206 when mkdir succeeds: the directories, then the file list.
MainStart ==
    /\ pc = "start"
    /\ faulty # "mkdir"
    /\ dirs' = create_directories(dirs)
    /\ excel_files' = Glob(fs)
    /\ IF Glob(fs) = <<>>
       THEN pc' = "done" /\ report' = "no_files"
       ELSE pc' = "menu" /\ report' = report
    /\ UNCHANGED <<choice, fs, faulty, PRESERVE_FILE_DATES, nested, idx, successful, failed, calls>>

\* Line 199 when mkdir raises: create_directories() stands before the try of
\* line 217, so only the try of an enclosing main() (line 270) catches it.
MainStartFails ==
    /\ pc = "start"
    /\ faulty = "mkdir"
    /\ IF nested
       THEN pc' = "done" /\ report' = "unexpected_error"
       ELSE pc' = "crashed" /\ report' = "traceback"
    /\ UNCHANGED <<choice, fs, dirs, faulty, PRESERVE_FILE_DATES, nested, excel_files, idx,
                   successful, failed, calls>>

\* Lines 220-225, choice "1": the loop over excel_files[:5] starts.
Choose1 ==
    /\ pc = "menu"
    /\ choice' = "1"
    /\ pc' = "test"
    /\ idx' = 0
    /\ UNCHANGED <<fs, dirs, faulty, PRESERVE_FILE_DATES, nested, excel_files,
                   successful, failed, calls, report>>

\* One iteration of the loop of lines 223-225; the result is not looked at.
TestStep ==
    /\ pc = "test"
    /\ idx < Min(Len(excel_files), SampleSize)
    /\ \E res \in process_excel_file(excel_files[idx + 1], TRUE) :
        /\ calls' = Append(calls, Call(excel_files[idx + 1], TRUE, res))
        /\ IF res.escaped
           THEN fs' = res.fs /\ idx' = idx /\ pc' = "done" /\ report' = "unexpected_error"
           ELSE /\ fs' = res.fs
                /\ idx' = idx + 1
                /\ pc' = IF idx + 1 = Min(Len(excel_files), SampleSize) THEN "done" ELSE pc
                /\ report' = report
    /\ UNCHANGED <<choice, dirs, faulty, PRESERVE_FILE_DATES, nested, excel_files, successful, failed>>

\* Lines 227-232, choice "2": the counters are set and the loop starts.
Choose2 ==
    /\ pc = "menu"
    /\ choice' = "2"
    /\ pc' = "batch"
    /\ idx' = 0
    /\ successful' = 0
    /\ failed' = 0
    /\ UNCHANGED <<fs, dirs, faulty, PRESERVE_FILE_DATES, nested, excel_files, calls, report>>

\* One iteration of the loop of lines 234-239, and lines 241-243 after the last.
BatchStep ==
    /\ pc = "batch"
    /\ idx < Len(excel_files)
    /\ \E res \in process_excel_file(excel_files[idx + 1], FALSE) :
        /\ calls' = Append(calls, Call(excel_files[idx + 1], FALSE, res))
        /\ fs' = res.fs
        /\ IF res.escaped
           THEN /\ idx' = idx /\ successful' = successful /\ failed' = failed
                /\ pc' = "done" /\ report' = "unexpected_error"
           ELSE /\ idx' = idx + 1
                /\ successful' = IF res.ret THEN successful + 1 ELSE successful
                /\ failed' = IF res.ret THEN failed ELSE failed + 1
                /\ IF idx + 1 = Len(excel_files)
                   THEN pc' = "done" /\ report' = "results"
                   ELSE pc' = pc /\ report' = report
    /\ UNCHANGED <<choice, dirs, faulty, PRESERVE_FILE_DATES, nested, excel_files>>

\* Lines 245-251, choice "3": the first file only.
Choose3 ==
    /\ pc = "menu"
    /\ choice' = "3"
    /\ \E res \in process_excel_file(excel_files[1], FALSE) :
        /\ calls' = Append(calls, Call(excel_files[1], FALSE, res))
        /\ fs' = res.fs
        /\ report' = IF res.escaped THEN "unexpected_error"
                     ELSE IF res.ret THEN "single_ok" ELSE "single_failed"
    /\ pc' = "done"
    /\ UNCHANGED <<dirs, faulty, PRESERVE_FILE_DATES, nested, excel_files, idx,
                   successful, failed>>

\* Lines 253-271, choice "4": the flag is toggled or kept, and main() is
\* entered again from inside the try.
Choose4 ==
    /\ pc = "menu"
    /\ choice' = "4"
    /\ \E toggle \in BOOLEAN :
        PRESERVE_FILE_DATES' = IF toggle THEN ~PRESERVE_FILE_DATES ELSE PRESERVE_FILE_DATES
    /\ nested' = TRUE
    /\ pc' = "start"
    /\ UNCHANGED <<fs, dirs, faulty, excel_files, idx, successful, failed, calls, report>>

\* Lines 273-274: any other answer.
ChooseInvalid ==
    /\ pc = "menu"
    /\ choice' = "other"
    /\ pc' = "done"
    /\ report' = "invalid_choice"
    /\ UNCHANGED <<fs, dirs, faulty, PRESERVE_FILE_DATES, nested, excel_files, idx,
                   successful, failed, calls>>

\* Lines 276-277: Ctrl-C at a prompt or between two files of a loop.
Interrupt ==
    /\ pc \in {"menu", "test", "batch"}
    /\ pc' = "done"
    /\ report' = "interrupted"
    /\ UNCHANGED <<choice, fs, dirs, faulty, PRESERVE_FILE_DATES, nested, excel_files, idx,
                   successful, failed, calls>>

\* Lines 278-279: input() raises (end of input).
InputFails ==
    /\ pc = "menu"
    /\ pc' = "done"
    /\ report' = "unexpected_error"
    /\ UNCHANGED <<choice, fs, dirs, faulty, PRESERVE_FILE_DATES, nested, excel_files, idx,
                   successful, failed, calls>>

Next ==
    \/ MainStart
    \/ MainStartFails
    \/ Choose1
    \/ TestStep
    \/ Choose2
    \/ BatchStep
    \/ Choose3
    \/ Choose4
    \/ ChooseInvalid
    \/ Interrupt
    \/ InputFails

----------------------------------------------------------------------------
(* Initial states of a run of the program *)

ColOther == <<"D","a","t","e">>
ColT1 == TARGET_COLUMNS[1]
ColT2 == TARGET_COLUMNS[2]
ColSpaced == <<" ","M","Z"," "," ","1","/","6","0"," ">>
ColGlued == <<"m","z","1","/","6","0">>
ColSuper == <<"O","L","D"," ","M","Z"," ","1","/","6","0">>
ColDouble == <<"m","z","1","/","6","0","m","z","2","/","6","0">>

OneColumn(name, cell) == [cols |-> <<name>>, nrows |-> 1, data |-> << <<cell>> >>]

\* The files of a batch: no target column, a target column of text only, a
\* target column with one number, and a file that cannot be parsed.
Catalog ==
    << File(OneColumn(ColOther, Num(<<50000000, 0>>)), "old"),
       File(OneColumn(ColT1, Str("abc")), "old"),
       File(OneColumn(ColSpaced, Num(<<50000000, 0>>)), "old"),
       CorruptFile >>

\* What an earlier run left behind under a file's name.
StaleFile == File(OneColumn(ColT1, Num(MIN_VALUE)), "stale")

InputDir(n, off) ==
    [p \in Paths |->
        IF p[1] = INPUT_DIR /\ p[2] <= n
        THEN Catalog[((p[2] + off) % Len(Catalog)) + 1]
        ELSE NoFile]

WithStale(files, name) ==
    [files EXCEPT ![Join(BACKUP_DIR, name)] = StaleFile,
                  ![Join(OUTPUT_DIR, name)] = StaleFile]

Init ==
    /\ \E n \in 0..MaxFiles, off \in 0..(Len(Catalog) - 1), rerun \in BOOLEAN :
        /\ fs = IF rerun /\ n > 0 THEN WithStale(InputDir(n, off), 1) ELSE InputDir(n, off)
        /\ dirs = IF rerun THEN {OUTPUT_DIR, BACKUP_DIR} ELSE {}
    /\ faulty \in Faults
    /\ PRESERVE_FILE_DATES = TRUE
    /\ pc = "start"
    /\ choice = ""
    /\ nested = FALSE
    /\ excel_files = <<>>
    /\ idx = 0
    /\ successful = 0
    /\ failed = 0
    /\ calls = <<>>
    /\ report = "none"

Spec == Init /\ [][Next]_vars

----------------------------------------------------------------------------
(* One call of process_excel_file on one spreadsheet *)

Headers ==
    { <<ColOther>>, <<ColT1>>, <<ColSpaced>>,
      <<ColT1, ColSpaced>>, <<ColOther, ColGlued>>, <<ColSuper, ColT2>>,
      <<ColDouble, ColSpaced>> }

TheFile == Join(INPUT_DIR, 1)

InitFile ==
    /\ \E h \in Headers, rerun \in BOOLEAN :
        \E n \in 0..(MaxCells \div Len(h)) :
            \E d \in [1..Len(h) -> [1..n -> CellValues]] :
                LET t == [cols |-> h, nrows |-> n, data |-> d]
                    files == [p \in Paths |-> IF p = TheFile THEN File(t, "old") ELSE NoFile]
                IN  fs = IF rerun THEN WithStale(files, 1) ELSE files
    /\ dirs = {OUTPUT_DIR, BACKUP_DIR}
    /\ faulty = "none"
    /\ PRESERVE_FILE_DATES = TRUE
    /\ pc = "call"
    /\ choice = ""
    /\ nested = FALSE
    /\ excel_files = <<TheFile>>
    /\ idx = 0
    /\ successful = 0
    /\ failed = 0
    /\ calls = <<>>
    /\ report = "none"

\* process_excel_file(path) with the default test_mode=False
FileApply ==
    /\ pc = "call"
    /\ \E res \in process_excel_file(TheFile, FALSE) :
        /\ fs' = res.fs
        /\ calls' = Append(calls, Call(TheFile, FALSE, res))
    /\ pc' = "returned"
    /\ UNCHANGED <<choice, dirs, faulty, PRESERVE_FILE_DATES, nested, excel_files, idx,
                   successful, failed, report>>

\* process_excel_file(path, test_mode=True)
FileTest ==
    /\ pc = "call"
    /\ \E res \in process_excel_file(TheFile, TRUE) :
        /\ fs' = res.fs
        /\ calls' = Append(calls, Call(TheFile, TRUE, res))
    /\ pc' = "returned"
    /\ UNCHANGED <<choice, dirs, faulty, PRESERVE_FILE_DATES, nested, excel_files, idx,
                   successful, failed, report>>

NextFile == FileApply \/ FileTest

SpecFile == InitFile /\ [][NextFile]_vars

----------------------------------------------------------------------------
(* Vocabulary of the properties *)

\* The calls that wrote an output file.
SavedCalls == { k \in DOMAIN calls : calls[k].msg = "saved" }

TableRead(k) == fs[calls[k].path].table

TableWritten(k) == fs[calls[k].wrote[1]].table

IsResolved(k, name) == \E j \in DOMAIN calls[k].found : calls[k].found[j] = name

TimesResolved(k, name) ==
    Cardinality({ j \in DOMAIN calls[k].found : calls[k].found[j] = name })

\* A cell that does not read as a number: an empty cell or a plain text.
NonNumericCell(c) == c = NaN \/ c = Str("abc")

InRange(c) ==
    /\ c.k = "num"
    /\ Leq(MIN_VALUE, <<c.a, c.b>>)
    /\ Leq(<<c.a, c.b>>, MAX_VALUE)

IsCanonical(name) == \E t \in DOMAIN TARGET_COLUMNS : TARGET_COLUMNS[t] = name

\* The name contains a canonical name once spaces and case are set aside.
FuzzyMatches(name) ==
    \E t \in DOMAIN TARGET_COLUMNS :
        Contains(Normalize(TARGET_COLUMNS[t]), Normalize(name))

----------------------------------------------------------------------------
(* C1: in apply mode, every cell of a resolved column that is empty or a   *)
(* text that does not read as a number has the same value in the written   *)
(* table as in the table read, however often the column was resolved.      *)

C1_NonNumericCellsKept ==
    \A k \in SavedCalls :
        \A ci \in DOMAIN TableRead(k).cols :
            IsResolved(k, TableRead(k).cols[ci]) =>
                \A r \in 1..TableRead(k).nrows :
                    NonNumericCell(TableRead(k).data[ci][r]) =>
                        TableWritten(k).data[ci][r] = TableRead(k).data[ci][r]

\* A column resolved twice holds a text above a number; the number was
\* replaced and the text kept.
C1_Witness ==
    \E k \in SavedCalls :
        \E ci \in DOMAIN TableRead(k).cols :
            /\ TimesResolved(k, TableRead(k).cols[ci]) = 2
            /\ TableRead(k).nrows = 2
            /\ TableRead(k).data[ci][1] = Str("abc")
            /\ TableRead(k).data[ci][2] = Num(<<50000000, 0>>)
            /\ TableWritten(k).data[ci][1] = Str("abc")
            /\ TableWritten(k).data[ci][2] # Num(<<50000000, 0>>)

----------------------------------------------------------------------------
(* C2, as stated: in apply mode no cell changes in a column whose name is  *)
(* not one of the canonical names of TARGET_COLUMNS.                       *)

C2_NonCanonicalColumnsKept ==
    \A k \in SavedCalls :
        \A ci \in DOMAIN TableRead(k).cols :
            ~IsCanonical(TableRead(k).cols[ci]) =>
                TableWritten(k).data[ci] = TableRead(k).data[ci]

(* C2, amended: in apply mode no cell changes in a column whose name is    *)
(* neither canonical nor contains a canonical name after removing spaces   *)
(* and lowercasing.                                                        *)

C2_UnmatchedColumnsKept ==
    \A k \in SavedCalls :
        \A ci \in DOMAIN TableRead(k).cols :
            ~FuzzyMatches(TableRead(k).cols[ci]) =>
                TableWritten(k).data[ci] = TableRead(k).data[ci]

\* An unmatched column with a number stands beside a resolved column whose
\* number was replaced.
C2_Witness ==
    \E k \in SavedCalls :
        \E ci, cj \in DOMAIN TableRead(k).cols :
            /\ ~FuzzyMatches(TableRead(k).cols[ci])
            /\ TableRead(k).data[ci][1] = Num(<<50000000, 0>>)
            /\ TableWritten(k).data[ci][1] = Num(<<50000000, 0>>)
            /\ IsResolved(k, TableRead(k).cols[cj])
            /\ TableRead(k).data[cj][1] = Num(<<50000000, 0>>)
            /\ TableWritten(k).data[cj][1] # Num(<<50000000, 0>>)

----------------------------------------------------------------------------
(* C3: in apply mode, every cell of a resolved column whose input reads as *)
(* a number holds, in the written table, a number v with                   *)
(* MIN_VALUE <= v <= MAX_VALUE; none keeps its original value.             *)

C3_NumericCellsInRange ==
    \A k \in SavedCalls :
        \A ci \in DOMAIN TableRead(k).cols :
            IsResolved(k, TableRead(k).cols[ci]) =>
                \A r \in 1..TableRead(k).nrows :
                    ~NonNumericCell(TableRead(k).data[ci][r]) =>
                        /\ InRange(TableWritten(k).data[ci][r])
                        /\ TableWritten(k).data[ci][r] # TableRead(k).data[ci][r]

\* Two numeric cells of one resolved column received different values, one
\* at each end of the range, and a numeric text between them was replaced.
C3_Witness ==
    \E k \in SavedCalls :
        \E ci \in DOMAIN TableRead(k).cols :
            /\ IsResolved(k, TableRead(k).cols[ci])
            /\ TableRead(k).nrows = 3
            /\ TableRead(k).data[ci][1] = Num(<<50000000, 0>>)
            /\ TableRead(k).data[ci][2] = Str("12.5")
            /\ TableRead(k).data[ci][3] = Num(<<50000000, 0>>)
            /\ TableWritten(k).data[ci][1] = Num(MIN_VALUE)
            /\ InRange(TableWritten(k).data[ci][2])
            /\ TableWritten(k).data[ci][3] = Num(MAX_VALUE)

----------------------------------------------------------------------------
\* The column is one a target name stands for: it bears the name, or it
\* contains it (spaces and case aside) while no column bears it.
IsTargetColumn(cols, name) ==
    \E t \in DOMAIN TARGET_COLUMNS :
        \/ name = TARGET_COLUMNS[t]
        \/ /\ \A i \in DOMAIN cols : cols[i] # TARGET_COLUMNS[t]
           /\ Contains(Normalize(TARGET_COLUMNS[t]), Normalize(name))

NoTargetColumn(t) == \A i \in DOMAIN t.cols : ~IsTargetColumn(t.cols, t.cols[i])

TargetColumnsNonNumeric(t) ==
    /\ ~NoTargetColumn(t)
    /\ \A i \in DOMAIN t.cols :
        IsTargetColumn(t.cols, t.cols[i]) =>
            \A r \in 1..t.nrows : NonNumericCell(t.data[i][r])

OutputDirUnchanged == \A n \in Names : fs'[Join(OUTPUT_DIR, n)] = fs[Join(OUTPUT_DIR, n)]

ApplyCallReturns ==
    /\ Len(calls') = Len(calls) + 1
    /\ ~calls'[Len(calls')].test_mode

(* C4: in apply mode, a file with no target column yields the outcome "no  *)
(* columns found", a file whose target columns hold no numeric cell yields *)
(* the outcome "no changes"; both return False, and the call leaves every  *)
(* file of the output directory as it was.                                 *)

C4_NothingToChangeNoOutput ==
    [][ApplyCallReturns =>
        LET c == calls'[Len(calls')]
            t == fs[c.path].table
        IN  /\ NoTargetColumn(t) =>
                c.msg = "no_columns" /\ ~c.ret /\ c.wrote = <<>> /\ OutputDirUnchanged
            /\ TargetColumnsNonNumeric(t) =>
                c.msg = "no_changes" /\ ~c.ret /\ c.wrote = <<>> /\ OutputDirUnchanged
       ]_vars

\* A target column of text and empty cells beside a column of numbers that
\* only resembles it: "no changes", and the output of an earlier run stays.
C4_Witness ==
    /\ calls # <<>>
    /\ ~calls[1].test_mode
    /\ calls[1].msg = "no_changes"
    /\ TableRead(1).cols = <<ColT1, ColSpaced>>
    /\ TableRead(1).data = << <<Str("abc"), NaN>>, <<Num(<<50000000, 0>>), Str("12.5")>> >>
    /\ fs[Join(OUTPUT_DIR, 1)] = StaleFile

----------------------------------------------------------------------------
ResolvedFor(cols, t) ==
    IF \E i \in DOMAIN cols : cols[i] = TARGET_COLUMNS[t]
    THEN <<TARGET_COLUMNS[t]>>
    ELSE SelectSeq(cols, LAMBDA name :
             Contains(Normalize(TARGET_COLUMNS[t]), Normalize(name)))

ExpectedFound(cols) ==
    ResolvedFor(cols, 1) \o ResolvedFor(cols, 2) \o ResolvedFor(cols, 3) \o
    ResolvedFor(cols, 4) \o ResolvedFor(cols, 5) \o ResolvedFor(cols, 6) \o
    ResolvedFor(cols, 7)

(* C10: the resolved columns are, for each canonical name in the order of  *)
(* TARGET_COLUMNS, the column bearing exactly that name if there is one,   *)
(* and otherwise every column whose name contains the canonical name after *)
(* removing spaces and lowercasing; the list is empty exactly when no      *)
(* column matches any name, and exactly then the outcome is "no columns".  *)

C10_ResolutionExactThenFuzzy ==
    \A k \in DOMAIN calls :
        LET cols == TableRead(k).cols
        IN  /\ calls[k].found = ExpectedFound(cols)
            /\ (calls[k].found = <<>>) <=> (\A i \in DOMAIN cols : ~FuzzyMatches(cols[i]))
            /\ (calls[k].msg = "no_columns") <=> (calls[k].found = <<>>)

\* A column that contains two canonical names and a column written with
\* extra spaces: every match is resolved, spec by spec.
C10_Witness ==
    /\ calls # <<>>
    /\ TableRead(1).cols = <<ColDouble, ColSpaced>>
    /\ calls[1].found = <<ColDouble, ColSpaced, ColDouble>>

----------------------------------------------------------------------------
(* C5: a backup, once stored under a file name, is never written again;    *)
(* a backup that appears is the copy of the input file of that name.       *)

C5_BackupWrittenOnce ==
    [][\A n \in Names :
        LET b == Join(BACKUP_DIR, n)
        IN  /\ fs[b].exists => fs'[b] = fs[b]
            /\ (~fs[b].exists /\ fs'[b].exists) => fs'[b] = fs[Join(INPUT_DIR, n)]
      ]_vars

\* An apply-mode call went past its backup step for a file whose backup an
\* earlier run had stored, and that older backup is still there.
C5_Witness ==
    \E k \in DOMAIN calls :
        /\ ~calls[k].test_mode
        /\ calls[k].msg \in {"saved", "no_changes", "no_columns"}
        /\ fs[Join(BACKUP_DIR, Basename(calls[k].path))] = StaleFile
        /\ fs[calls[k].path] # StaleFile

----------------------------------------------------------------------------
InputUntouched == \A n \in Names : fs'[Join(INPUT_DIR, n)] = fs[Join(INPUT_DIR, n)]

OutputOnlyOfProcessed ==
    \A n \in Names :
        fs'[Join(OUTPUT_DIR, n)] # fs[Join(OUTPUT_DIR, n)] =>
            /\ Len(calls') = Len(calls) + 1
            /\ calls'[Len(calls')].path = Join(INPUT_DIR, n)

WritesElsewhere ==
    \A k \in DOMAIN calls :
        /\ Len(calls[k].wrote) <= 1
        /\ \A w \in DOMAIN calls[k].wrote :
            /\ calls[k].wrote[w] = <<OUTPUT_DIR, calls[k].path[2]>>
            /\ calls[k].wrote[w] # calls[k].path
        /\ \A j \in DOMAIN calls : calls[j].path = calls[k].path => j = k

(* C6: no step changes a file of the input directory; a call writes at     *)
(* most one file, at the path of the output directory named by the input   *)
(* file's basename, which is not the input path; a step changes an output  *)
(* file only of the name being processed; no file is processed twice.      *)

C6_OriginalNeverModified ==
    /\ [][InputUntouched /\ OutputOnlyOfProcessed]_vars
    /\ []WritesElsewhere

\* An output was written, it differs from what was read, and the input file
\* is still the one the run started with.
C6_Witness ==
    \E k \in SavedCalls :
        /\ fs[calls[k].wrote[1]].exists
        /\ TableWritten(k) # TableRead(k)
        /\ \E j \in DOMAIN Catalog : fs[calls[k].path] = Catalog[j]

----------------------------------------------------------------------------
(* C7: in the batch mode every enumerated file is processed once, in the   *)
(* order of enumeration, whatever the earlier files' outcomes; an error in *)
(* a file counts as that file's failure; unless the user interrupts, the   *)
(* batch ends with successful + failed equal to the number of files.       *)

C7_BatchIsolatesErrors ==
    choice = "2" =>
        /\ pc \in {"batch", "done"}
        /\ Len(calls) = idx
        /\ idx <= Len(excel_files)
        /\ \A k \in DOMAIN calls :
            /\ calls[k].path = excel_files[k]
            /\ ~calls[k].test_mode
            /\ calls[k].msg = "error" => ~calls[k].ret
        /\ successful = Cardinality({k \in DOMAIN calls : calls[k].ret})
        /\ failed = Cardinality({k \in DOMAIN calls : ~calls[k].ret})
        /\ successful + failed = idx
        /\ pc = "done" =>
            \/ report = "interrupted"
            \/ report = "results" /\ idx = Len(excel_files)

\* The first file raised an error, later files were saved, and the batch
\* reported its results over all the files.
C7_Witness ==
    /\ choice = "2"
    /\ report = "results"
    /\ Len(excel_files) >= 3
    /\ calls[1].msg = "error"
    /\ \E k \in SavedCalls : k > 1
    /\ successful >= 1
    /\ failed >= 1
    /\ successful + failed = Len(excel_files)

----------------------------------------------------------------------------
TestCallChangesNothing ==
    (Len(calls') = Len(calls) + 1 /\ calls'[Len(calls')].test_mode) =>
        fs' = fs /\ calls'[Len(calls')].wrote = <<>>

DryRunOverSample ==
    choice = "1" =>
        /\ Len(calls) <= SampleSize
        /\ \A k \in DOMAIN calls : calls[k].test_mode /\ calls[k].path = excel_files[k]

(* C8: a call in test mode changes no file: no backup, no output, no cell; *)
(* the dry-run menu mode calls it, in test mode, on the first files of the *)
(* enumeration only, at most 5 of them.                                    *)

C8_TestModeDryRun ==
    /\ [][TestCallChangesNothing]_vars
    /\ []DryRunOverSample

\* The dry run ended after 5 of more than 5 files; one call returned True
\* and one False.
C8_Witness ==
    /\ choice = "1"
    /\ pc = "done"
    /\ report = "none"
    /\ Len(excel_files) > SampleSize
    /\ Len(calls) = SampleSize
    /\ \E k \in DOMAIN calls : calls[k].ret
    /\ \E k \in DOMAIN calls : ~calls[k].ret

----------------------------------------------------------------------------
(* C9: main() returns normally whatever raises: no exception escapes it.   *)

C9_MainNeverCrashes == pc # "crashed"

====
